---- MODULE Spec2Model ----
(***************************************************************************)
(* Songs List Application: the backend's upload / import / listing path.   *)
(* Text is modelled as sequences of one-character strings, so that the     *)
(* string operations of songs.service.ts (split, trim, replace,            *)
(* toLowerCase, includes, parseInt) are computed character by character.   *)
(***************************************************************************)
EXTENDS Integers, Sequences, FiniteSets, TLC

VARIABLES store, req, currentYear, client, ui

vars == <<store, req, currentYear, client, ui>>

(***************************************************************************)
(* Bounds of the model.                                                    *)
(***************************************************************************)
\* Most rows the song table holds before further inserts are refused.
MaxStore == 2
\* The calendar years the clock runs through: FirstYear .. FirstYear + YearSpan.
FirstYear == 2025
YearSpan == 1
\* Most data rows of a generated CSV file (specification SpecParse).
MaxRows == 2
\* Most timers of showSuccess pending at once (specification SpecNotify).
MaxTimers == 2

\* The request slots: requests the server handles at the same time.
Reqs == {"r1", "r2"}

(***************************************************************************)
(* JavaScript strings.                                                     *)
(***************************************************************************)
\* A string literal as the sequence of its characters.
Chars(s) == [i \in 1..Len(s) |-> SubSeq(s, i, i)]

\* The characters String.prototype.trim removes (those the inputs use).
Whitespace == {" ", "\t", "\r", "\n"}

RECURSIVE TrimStart(_)
TrimStart(s) ==
    IF s # <<>> /\ Head(s) \in Whitespace THEN TrimStart(Tail(s)) ELSE s

RECURSIVE TrimEnd(_)
TrimEnd(s) ==
    IF s # <<>> /\ s[Len(s)] \in Whitespace
    THEN TrimEnd(SubSeq(s, 1, Len(s) - 1))
    ELSE s

\* String.prototype.trim
Trim(s) == TrimEnd(TrimStart(s))

\* String.prototype.indexOf for a one-character needle; 0 when absent.
IndexOf(s, c) ==
    IF \E i \in 1..Len(s) : s[i] = c
    THEN CHOOSE i \in 1..Len(s) : s[i] = c /\ \A j \in 1..(i - 1) : s[j] # c
    ELSE 0

\* String.prototype.split on a one-character separator: never empty.
RECURSIVE Split(_, _)
Split(s, sep) ==
    LET i == IndexOf(s, sep)
    IN  IF i = 0
        THEN <<s>>
        ELSE <<SubSeq(s, 1, i - 1)>> \o Split(SubSeq(s, i + 1, Len(s)), sep)

\* String.prototype.includes
Includes(s, sub) ==
    \E i \in 0..(Len(s) - Len(sub)) : SubSeq(s, i + 1, i + Len(sub)) = sub

\* s.replace(/"/g, '')
RemoveQuotes(s) == SelectSeq(s, LAMBDA c : c # "\"")

UpperCase == Chars("ABCDEFGHIJKLMNOPQRSTUVWXYZ")
LowerCase == Chars("abcdefghijklmnopqrstuvwxyz")

LowerChar(c) ==
    IF \E i \in 1..Len(UpperCase) : UpperCase[i] = c
    THEN LowerCase[CHOOSE i \in 1..Len(UpperCase) : UpperCase[i] = c]
    ELSE c

\* String.prototype.toLowerCase
ToLowerCase(s) == [i \in 1..Len(s) |-> LowerChar(s[i])]

DecDigits == Chars("0123456789")
IsDigit(c) == \E i \in 1..Len(DecDigits) : DecDigits[i] = c
DigitVal(c) == (CHOOSE i \in 1..Len(DecDigits) : DecDigits[i] = c) - 1

RECURSIVE DigitPrefix(_)
DigitPrefix(s) ==
    IF s # <<>> /\ IsDigit(Head(s))
    THEN <<Head(s)>> \o DigitPrefix(Tail(s))
    ELSE <<>>

RECURSIVE DigitsValue(_)
DigitsValue(ds) ==
    IF ds = <<>>
    THEN 0
    ELSE 10 * DigitsValue(SubSeq(ds, 1, Len(ds) - 1)) + DigitVal(ds[Len(ds)])

\* A JavaScript number: NaN, or an integer value.
NaN == [nan |-> TRUE, val |-> 0]
Num(n) == [nan |-> FALSE, val |-> n]

\* parseInt(s) without a radix, for inputs without a 0x prefix: leading
\* whitespace is skipped, then an optional sign, then the longest prefix of
\* decimal digits; NaN when that prefix is empty.
ParseInt(s) ==
    LET t == TrimStart(s)
        signed == t # <<>> /\ Head(t) \in {"+", "-"}
        ds == DigitPrefix(IF signed THEN Tail(t) ELSE t)
    IN  IF ds = <<>>
        THEN NaN
        ELSE Num(IF signed /\ Head(t) = "-" THEN 0 - DigitsValue(ds) ELSE DigitsValue(ds))

\* NumberOr replacing NaN alone.
NumberOrNaNOnly(a, b) == IF a.nan THEN b ELSE a.val

\* a || b for a number a: b when a is NaN or 0.
NumberOr(a, b) == IF a.nan \/ a.val = 0 THEN b ELSE a.val

\* An optional value: <<>> is undefined, <<v>> is the value v.
Undefined == <<>>
Defined(v) == <<v>>

\* array[i] for the zero-based index i: undefined past the end.
ElementAt(array, i) == IF i + 1 <= Len(array) THEN Defined(array[i + 1]) ELSE Undefined

\* parseInt of a possibly undefined argument: parseInt(undefined) is NaN.
ParseIntOf(o) == IF o = Undefined THEN NaN ELSE ParseInt(o[1])

\* o?.toLowerCase().trim() || ''
LowerTrimOrEmpty(o) == IF o = Undefined THEN <<>> ELSE Trim(ToLowerCase(o[1]))

(***************************************************************************)
(* SongsService.loadCSV: the synchronous parse of the uploaded buffer.     *)
(***************************************************************************)
\* const lines = csvData.split('\n')
BufferLines(buffer) == Split(buffer, "\n")

\* const delimiter = lines[0].includes(';') ? ';' : ','
DetectDelimiter(header) == IF Includes(header, <<";">>) THEN ";" ELSE ","

\* CleanValue leaving the quotes in place.
CleanValueKeepQuotes(v) == Trim(v)

\* v => v.trim().replace(/"/g, '')
CleanValue(v) == RemoveQuotes(Trim(v))

\* RowValues detecting the delimiter anew in every row.
RowValuesPerRow(line, delimiter) ==
    LET parts == Split(line, DetectDelimiter(line))
    IN  [k \in 1..Len(parts) |-> CleanValue(parts[k])]

\* const values = lines[i].split(delimiter).map(v => v.trim().replace(/"/g, ''))
RowValues(line, delimiter) ==
    LET parts == Split(line, delimiter)
    IN  [k \in 1..Len(parts) |-> CleanValue(parts[k])]

\* EnoughFields content with two fields.
EnoughFieldsTwo(values) == Len(values) >= 2

\* if (values.length >= 3)
EnoughFields(values) == Len(values) >= 3

\* RowSong reading the band from field 0 and the song from field 1.
RowSongBandFirst(values, yearNow) ==
    [song_name |-> LowerTrimOrEmpty(ElementAt(values, 1)),
     band_name |-> LowerTrimOrEmpty(ElementAt(values, 0)),
     year      |-> NumberOr(ParseIntOf(ElementAt(values, 2)), yearNow)]

\* const song: Song = { song_name: ..., band_name: ..., year: ... }
RowSong(values, yearNow) ==
    [song_name |-> LowerTrimOrEmpty(ElementAt(values, 0)),
     band_name |-> LowerTrimOrEmpty(ElementAt(values, 1)),
     year      |-> NumberOr(ParseIntOf(ElementAt(values, 2)), yearNow)]

\* RequiredPresent testing the song name alone.
RequiredPresentSongOnly(song) == song.song_name # <<>>

\* if (song.song_name && song.band_name)
RequiredPresent(song) == song.song_name # <<>> /\ song.band_name # <<>>

\* ParseFrom giving up at the first line that is not blank and not accepted.
RECURSIVE ParseFromUntilMalformed(_, _, _, _)
ParseFromUntilMalformed(lines, i, delimiter, yearNow) ==
    IF i >= Len(lines)
    THEN <<>>
    ELSE LET line == lines[i + 1]
             values == RowValues(line, delimiter)
             song == RowSong(values, yearNow)
             pushed == Trim(line) # <<>> /\ EnoughFields(values) /\ RequiredPresent(song)
         IN  IF Trim(line) # <<>> /\ ~pushed
             THEN <<>>
             ELSE (IF pushed THEN <<[line |-> i, song |-> song]>> ELSE <<>>)
                  \o ParseFromUntilMalformed(lines, i + 1, delimiter, yearNow)

\* ParseFrom putting each accepted row before the rows accepted so far.
RECURSIVE ParseFromNewestFirst(_, _, _, _)
ParseFromNewestFirst(lines, i, delimiter, yearNow) ==
    IF i >= Len(lines)
    THEN <<>>
    ELSE LET line == lines[i + 1]
             values == RowValues(line, delimiter)
             song == RowSong(values, yearNow)
             pushed == Trim(line) # <<>> /\ EnoughFields(values) /\ RequiredPresent(song)
         IN  ParseFromNewestFirst(lines, i + 1, delimiter, yearNow)
             \o (IF pushed THEN <<[line |-> i, song |-> song]>> ELSE <<>>)

\* The for loop over lines[1..]: the rows pushed to songs, in order, each with
\* the zero-based index of the line it came from.
RECURSIVE ParseFrom(_, _, _, _)
ParseFrom(lines, i, delimiter, yearNow) ==
    IF i >= Len(lines)
    THEN <<>>
    ELSE LET line == lines[i + 1]
             values == RowValues(line, delimiter)
             song == RowSong(values, yearNow)
             pushed == Trim(line) # <<>> /\ EnoughFields(values) /\ RequiredPresent(song)
         IN  (IF pushed THEN <<[line |-> i, song |-> song]>> ELSE <<>>)
             \o ParseFrom(lines, i + 1, delimiter, yearNow)

LoadCSVParse(buffer, yearNow) ==
    LET lines == BufferLines(buffer)
    IN  ParseFrom(lines, 1, DetectDelimiter(lines[1]), yearNow)

\* The songs array handed to insert().
Songs(rows) == [k \in 1..Len(rows) |-> rows[k].song]

\* NoValidSongs never reporting an empty parse.
NoValidSongsNever(rows) == FALSE

\* if (songs.length === 0)
NoValidSongs(rows) == Len(rows) = 0

(***************************************************************************)
(* The csv-parser stream that SongsService.importCSV pipes the sample file *)
(* through (default options: separator ',', quote and escape '"', headers  *)
(* from the first line).  The sample files hold no newline inside quotes.  *)
(***************************************************************************)
\* One line without its trailing carriage return.
StripCR(line) ==
    IF line # <<>> /\ line[Len(line)] = "\r" THEN SubSeq(line, 1, Len(line) - 1) ELSE line

\* The lines of the stream; nothing follows a final newline.
CsvLines(content) ==
    LET parts == Split(content, "\n")
        kept == IF parts[Len(parts)] = <<>> THEN SubSeq(parts, 1, Len(parts) - 1) ELSE parts
    IN  [k \in 1..Len(kept) |-> StripCR(kept[k])]

\* parseCell: enclosing quotes are removed, an escaped quote is one quote.
RECURSIVE Unescape(_)
Unescape(s) ==
    IF s = <<>>
    THEN <<>>
    ELSE IF Head(s) = "\"" /\ Len(s) >= 2 /\ s[2] = "\""
         THEN <<"\"">> \o Unescape(SubSeq(s, 3, Len(s)))
         ELSE <<Head(s)>> \o Unescape(Tail(s))

ParseCell(raw) ==
    IF raw # <<>> /\ raw[1] = "\"" /\ raw[Len(raw)] = "\""
    THEN Unescape(SubSeq(raw, 2, Len(raw) - 1))
    ELSE Unescape(raw)

\* parseLine's scan from position i: offset is where the current cell began.
RECURSIVE ScanCells(_, _, _, _)
ScanCells(line, i, offset, quoted) ==
    IF i > Len(line)
    THEN (IF offset <= Len(line) THEN <<ParseCell(SubSeq(line, offset, Len(line)))>> ELSE <<>>)
         \o (IF line # <<>> /\ line[Len(line)] = "," THEN << <<>> >> ELSE <<>>)
    ELSE LET c == line[i]
             next == IF i + 1 <= Len(line) THEN line[i + 1] ELSE "\n"
         IN  IF (~quoted /\ c = "\"") \/ (quoted /\ c = "\"" /\ next = ",")
             THEN ScanCells(line, i + 1, offset, ~quoted)
             ELSE IF quoted /\ c = "\"" /\ i + 1 <= Len(line) /\ next = "\""
             THEN ScanCells(line, i + 2, offset, quoted)
             ELSE IF c = "," /\ ~quoted
             THEN <<ParseCell(SubSeq(line, offset, i - 1))>>
                  \o ScanCells(line, i + 1, i + 1, quoted)
             ELSE ScanCells(line, i + 1, offset, quoted)

CsvCells(line) == ScanCells(line, 1, 1, FALSE)

\* row[key] of the object writeRow builds: cell k under header k; a later
\* column of the same name wins; undefined when no column has that name.
RowGet(headers, cells, key) ==
    LET hits == {k \in 1..Len(cells) : k <= Len(headers) /\ headers[k] = key}
    IN  IF hits = {}
        THEN Undefined
        ELSE Defined(cells[CHOOSE k \in hits : \A j \in hits : j <= k])

\* a || b for possibly undefined strings: b when a is undefined or ''.
StringOr(a, b) == IF a = Undefined \/ a[1] = <<>> THEN b ELSE a

\* o?.split(';')[i]
SplitFieldOf(o, i) == IF o = Undefined THEN Undefined ELSE ElementAt(Split(o[1], ";"), i)

(***************************************************************************)
(* SongsService.importCSV: the 'data' handler and the rows it collects.    *)
(***************************************************************************)
ImportSong(headers, cells, yearNow) ==
    LET combined == RowGet(headers, cells, Chars("Song Name;Band;Year"))
    IN  [song_name |-> LowerTrimOrEmpty(StringOr(RowGet(headers, cells, Chars("Song Name")),
                                                 SplitFieldOf(combined, 0))),
         band_name |-> LowerTrimOrEmpty(StringOr(RowGet(headers, cells, Chars("Band")),
                                                 SplitFieldOf(combined, 1))),
         year      |-> NumberOr(ParseIntOf(StringOr(RowGet(headers, cells, Chars("Year")),
                                                    SplitFieldOf(combined, 2))), yearNow)]

\* if (song.song_name && song.band_name), in the 'data' handler
ImportRequiredPresent(song) == song.song_name # <<>> /\ song.band_name # <<>>

RECURSIVE ImportFrom(_, _, _, _)
ImportFrom(lines, i, headers, yearNow) ==
    IF i >= Len(lines)
    THEN <<>>
    ELSE LET song == ImportSong(headers, CsvCells(lines[i + 1]), yearNow)
         IN  (IF ImportRequiredPresent(song) THEN <<[line |-> i, song |-> song]>> ELSE <<>>)
             \o ImportFrom(lines, i + 1, headers, yearNow)

ImportCSVParse(content, yearNow) ==
    LET lines == CsvLines(content)
    IN  IF lines = <<>> THEN <<>> ELSE ImportFrom(lines, 1, CsvCells(lines[1]), yearNow)

(***************************************************************************)
(* The song table behind the Supabase client.                              *)
(***************************************************************************)
\* The characters of the inputs in code-point order.
CodeOrder == Chars("\t\n\r \"+,-/0123456789;ABCDEFGHIJKLMNOPQRSTUVWXYZ_abcdefghijklmnopqrstuvwxyz")
CodePoint(c) == CHOOSE i \in 1..Len(CodeOrder) : CodeOrder[i] = c

\* a <= b in the table's text ordering.
RECURSIVE TextLeq(_, _)
TextLeq(a, b) ==
    IF a = <<>> THEN TRUE
    ELSE IF b = <<>> THEN FALSE
    ELSE IF Head(a) = Head(b) THEN TextLeq(Tail(a), Tail(b))
    ELSE CodePoint(Head(a)) < CodePoint(Head(b))

\* InBandOrder descending.
InBandOrderDescending(a, b) == TextLeq(b.band_name, a.band_name)

\* .order('band_name', { ascending: true })
InBandOrder(a, b) == TextLeq(a.band_name, b.band_name)

\* select('*').order(...): the results the table may return, every row once;
\* the order among rows of equal band_name is the table's to choose.
SelectOrdered(table) ==
    {[k \in 1..Len(table) |-> table[p[k]]] : p \in
        {q \in Permutations(1..Len(table)) :
            \A i, j \in 1..Len(table) : i < j => InBandOrder(table[q[i]], table[q[j]])}}

\* Inserted skipping the songs the table already holds.
InsertedDistinct(table, songs) ==
    LET held(song) == \E i \in 1..Len(table) :
                         /\ table[i].song_name = song.song_name
                         /\ table[i].band_name = song.band_name
                         /\ table[i].year = song.year
        fresh == SelectSeq(songs, LAMBDA song : ~held(song))
    IN  table \o [k \in 1..Len(fresh) |->
                    [id |-> Len(table) + k,
                     song_name |-> fresh[k].song_name,
                     band_name |-> fresh[k].band_name,
                     year |-> fresh[k].year]]

\* Inserted putting the batch in the place of the rows the table held.
InsertedReplacing(table, songs) ==
    [k \in 1..Len(songs) |->
        [id |-> Len(table) + k,
         song_name |-> songs[k].song_name,
         band_name |-> songs[k].band_name,
         year |-> songs[k].year]]

\* insert(songs): the batch appended, the table assigning the ids.
Inserted(table, songs) ==
    table \o [k \in 1..Len(songs) |->
                [id |-> Len(table) + k,
                 song_name |-> songs[k].song_name,
                 band_name |-> songs[k].band_name,
                 year |-> songs[k].year]]

\* The messages of the errors the table reports or the client throws.
StoreErrors == {"Upload failed"}

\* return data || []
DataOrEmpty(data) == IF data = Undefined THEN <<>> ELSE data[1]

(***************************************************************************)
(* The inputs: uploaded files and the bundled sample file.                 *)
(***************************************************************************)
\* @UploadedFile() file: undefined when the request carries none.
NoFile == [present |-> FALSE, mimetype |-> <<>>, hasBuffer |-> FALSE, buffer |-> <<>>]
File(mimetype, buffer) ==
    [present |-> TRUE, mimetype |-> Chars(mimetype), hasBuffer |-> TRUE, buffer |-> buffer]

\* A file object whose buffer is undefined (Express.Multer.File carries a
\* buffer only under memory storage).
FileWithoutBuffer(mimetype) ==
    [present |-> TRUE, mimetype |-> Chars(mimetype), hasBuffer |-> FALSE, buffer |-> <<>>]

\* The message of the TypeError that file.buffer.toString throws then.
ToStringOfUndefined == "Cannot read properties of undefined (reading 'toString')"

BeatlesCSV == Chars("band,song,year\nThe Beatles,Hey Jude,1968")
HeaderOnlyCSV == Chars("band,song,year\n")
MissingYearCSV == Chars("band,song\nThe Beatles,Hey Jude")
TwoSongsCSV == Chars("Song Name,Band,Year\nHey Jude,The Beatles,1968\nBohemian Rhapsody,Queen,1975")
MixedCSV == Chars("Song Name;Band;Year\n;Nobody;1999\nNameless;;2000\n\"Imagine\"; John Lennon ;n/a")

UploadBuffers == {BeatlesCSV, HeaderOnlyCSV, MissingYearCSV, TwoSongsCSV, MixedCSV}

UploadFiles ==
    {NoFile}
    \cup {File("text/csv", b) : b \in UploadBuffers}
    \cup {File(m, BeatlesCSV) : m \in {"image/jpeg", "application/vnd.ms-excel"}}
    \cup {FileWithoutBuffer("text/csv")}

\* What src/song_list.csv may hold.
SampleFiles ==
    {Chars("Song Name,Band,Year\nHey Jude,The Beatles,1968\nYesterday,,1965"),
     Chars("Song Name;Band;Year\nImagine;John Lennon;0\n"),
     Chars("Song Name,Band,Year\n")}

(***************************************************************************)
(* Requests.  A slot holds one request from its arrival to its response.   *)
(***************************************************************************)
IdleReq ==
    [kind |-> "none", pc |-> "idle", file |-> NoFile, rows |-> <<>>,
     status |-> 0, message |-> <<>>, data |-> "none", body |-> <<>>,
     loadCSVCalls |-> 0, insertCalls |-> 0,
     phases |-> <<>>, resolved |-> 0, rejected |-> 0, failure |-> "none", cause |-> ""]

\* The response that ends a request.
Responded(q, status, message) ==
    [q EXCEPT !.pc = "done", !.status = status, !.message = message]

\* throw new BadRequestException(message) before the service is called.
BadRequest(q, message) ==
    [Responded(q, 400, message) EXCEPT !.phases = Append(@, "failed")]

\* Rejected answering with the first part of the message only.
RejectedWithoutCause(q, failure, cause, message) ==
    [Responded(q, 500, <<message[1]>>) EXCEPT
        !.rejected = @ + 1, !.failure = failure, !.cause = cause,
        !.phases = Append(@, "failed")]

\* reject(new Error(...)) in the service, answered by the controller's catch
\* with INTERNAL_SERVER_ERROR; cause is the message of the error caught by the
\* service, if it caught one.
Rejected(q, failure, cause, message) ==
    [Responded(q, 500, message) EXCEPT
        !.rejected = @ + 1, !.failure = failure, !.cause = cause,
        !.phases = Append(@, "failed")]

\* resolve({ message }) in the service, returned by the controller.
Resolved(q, message) ==
    [Responded(q, 201, message) EXCEPT
        !.resolved = @ + 1, !.phases = Append(@, "success")]

\* if (!file)
FileMissing(file) == ~file.present

\* IsCSVMimetype accepting every declared type.
IsCSVMimetypeAny(file) == TRUE

\* file.mimetype.includes('csv')
IsCSVMimetype(file) == Includes(file.mimetype, Chars("csv"))

\* The prefix the controller's catch puts before the service's message.
ControllerPrefix(kind) ==
    IF kind = "upload" THEN "Failed to process CSV file: " ELSE "Failed to import CSV file: "

\* The service's success message.
SuccessMessage(kind, n) ==
    IF kind = "upload"
    THEN <<"Successfully uploaded ", ToString(n), " songs">>
    ELSE <<"Successfully imported ", ToString(n), " songs from file">>

(***************************************************************************)
(* The browser: the React Query cache entry of the songs list (useSongs),  *)
(* the upload and import mutations and the ApiService they call.           *)
(***************************************************************************)
\* s.replace(sub, ''): the first occurrence of sub removed.
RemoveFirst(s, sub) ==
    IF Includes(s, sub)
    THEN LET i == CHOOSE i \in 0..(Len(s) - Len(sub)) :
                    /\ SubSeq(s, i + 1, i + Len(sub)) = sub
                    /\ \A j \in 0..(i - 1) : SubSeq(s, j + 1, j + Len(sub)) # sub
         IN  SubSeq(s, 1, i) \o SubSeq(s, i + Len(sub) + 1, Len(s))
    ELSE s

\* The name of the file the user drops.
DroppedFileName == Chars("songs.csv")

\* optimisticSong: the temporary entry of onMutate; its id is a timestamp,
\* which no row of the table carries.
OptimisticSong(name, yearNow) ==
    [id |-> 0, SongName |-> RemoveFirst(name, Chars(".csv")),
     Band |-> Chars("Uploading..."), Year |-> yearNow]

\* old ? [...old, optimisticSong] : [optimisticSong]
WithOptimisticSong(old, song) ==
    IF old = Undefined THEN <<song>> ELSE Append(old[1], song)

\* The error axios throws for a response outside 2xx.
AxiosError(status) ==
    [message |-> "Request failed with status code", response |-> Defined([status |-> status])]

\* ApiService: catch (error) { throw new Error(message) }
ApiError(message) == [message |-> message, response |-> Undefined]
GetSongsError(axiosError) == ApiError("Failed to fetch songs from server")

\* error?.response?.status
ResponseStatus(error) ==
    IF error.response = Undefined THEN Undefined ELSE Defined(error.response[1].status)

\* QueryRetry allowing a fourth retry.
QueryRetryFourTimes(failureCount, error) ==
    LET status == ResponseStatus(error)
    IN  IF status # Undefined /\ status[1] >= 400 /\ status[1] < 500
        THEN FALSE
        ELSE failureCount < 4

\* retry: (failureCount, error) => ... of the songs query
QueryRetry(failureCount, error) ==
    LET status == ResponseStatus(error)
    IN  IF status # Undefined /\ status[1] >= 400 /\ status[1] < 500
        THEN FALSE
        ELSE failureCount < 3

\* Math.min(a, b)
Min(a, b) == IF a <= b THEN a ELSE b

\* retryDelay: (attemptIndex) => Math.min(1000 * 2 ** attemptIndex, 30000)
QueryRetryDelay(attemptIndex) == Min(1000 * 2 ^ attemptIndex, 30000)

\* mutations: { retry: 1 }
MutationRetry == 1

\* The query of songKeys.lists() and the mutation, before the App mounts.
\* gets, delays and lastStatus describe the fetch in progress: the GET
\* requests it sent, the delays it waited and the status of the last
\* response; posts counts the POST requests of the mutation; expect is the
\* number of rows the table held when the last mutation succeeded.
InitClient ==
    [mounted |-> FALSE,
     data |-> Undefined, status |-> "pending", fetchStatus |-> "idle",
     failureCount |-> 0, isInvalidated |-> FALSE,
     gets |-> 0, delays |-> <<>>, lastStatus |-> 0,
     mutation |-> "none", mState |-> "idle", mFile |-> NoFile,
     mFailureCount |-> 0, posts |-> 0, previousSongs |-> Undefined,
     expect |-> 0]

\* Query.fetch: the query function is called, a GET /songs is sent.
StartFetch(c) ==
    [c EXCEPT !.fetchStatus = "fetching", !.failureCount = 0,
              !.status = IF c.data = Undefined THEN "pending" ELSE c.status,
              !.gets = 1, !.delays = <<>>, !.lastStatus = 0]

\* queryClient.setQueryData(songKeys.lists(), data)
SetQueryData(c, data) ==
    [c EXCEPT !.data = Defined(data), !.status = "success", !.isInvalidated = FALSE]

(***************************************************************************)
(* The page: App's year filter and notification, YearFilter's dropdown and *)
(* SongsTable's search and sorting.  Arrays are sequences.                 *)
(***************************************************************************)
\* song[field]; undefined when the record has no such property.
Prop(song, field) ==
    IF field \in DOMAIN song THEN Defined(song[field]) ELSE Undefined

\* array.includes(value)
ArrayIncludes(array, value) == \E i \in 1..Len(array) : array[i] = value

RECURSIVE DecimalDigits(_)
DecimalDigits(n) ==
    IF n < 10 THEN <<Chars("0123456789")[n + 1]>>
    ELSE Append(DecimalDigits(n \div 10), Chars("0123456789")[(n % 10) + 1])

\* Number.prototype.toString() of an integer.
NumberToString(n) ==
    IF n < 0 THEN <<"-">> \o DecimalDigits(-n) ELSE DecimalDigits(n)

\* filteredSongs: selectedYears.includes(song.Year?.toString() || '')
FilteredSongs(songs, selectedYears) ==
    IF Len(selectedYears) = 0 THEN songs
    ELSE SelectSeq(songs, LAMBDA song :
            ArrayIncludes(selectedYears,
                IF Prop(song, "Year") = Undefined THEN <<>>
                ELSE NumberToString(song.Year)))

\* The numbers of a set, largest first.
RECURSIVE Descending(_)
Descending(S) ==
    IF S = {} THEN <<>>
    ELSE LET m == CHOOSE x \in S : \A y \in S : y <= x
         IN  <<m>> \o Descending(S \ {m})

\* yearOptions: the distinct years above 0 of the songs, newest first, as text.
YearOptions(songs) ==
    LET years == {songs[i].year : i \in {k \in 1..Len(songs) :
                      /\ Prop(songs[k], "year") # Undefined
                      /\ songs[k].year > 0}}
        sorted == Descending(years)
    IN  [k \in 1..Len(sorted) |-> NumberToString(sorted[k])]

\* a.localeCompare(b) for the texts the table holds (lower-case letters,
\* digits, spaces): negative, zero or positive as a sorts before, with or
\* after b.
RECURSIVE LocaleCompare(_, _)
LocaleCompare(a, b) ==
    IF a = <<>> /\ b = <<>> THEN 0
    ELSE IF a = <<>> THEN -1
    ELSE IF b = <<>> THEN 1
    ELSE IF Head(a) = Head(b) THEN LocaleCompare(Tail(a), Tail(b))
    ELSE IF CodePoint(Head(a)) < CodePoint(Head(b)) THEN -1 ELSE 1

\* The comparator of filtered.sort: strings by localeCompare, numbers by
\* difference, 0 when a value is missing.
SortCompare(a, b, sortField, sortDirection) ==
    LET aValue == Prop(a, sortField)
        bValue == Prop(b, sortField)
    IN  IF aValue = Undefined \/ bValue = Undefined THEN 0
        ELSE IF sortField = "year"
             THEN (IF sortDirection = "asc" THEN aValue[1] - bValue[1]
                   ELSE bValue[1] - aValue[1])
        ELSE (IF sortDirection = "asc" THEN LocaleCompare(aValue[1], bValue[1])
              ELSE LocaleCompare(bValue[1], aValue[1]))

\* Array.prototype.sort places x in a sorted array: after every element
\* that does not compare greater than it (the sort is stable).
RECURSIVE InsertSorted(_, _, _, _)
InsertSorted(sorted, x, sortField, sortDirection) ==
    IF sorted = <<>> THEN <<x>>
    ELSE LET last == sorted[Len(sorted)]
         IN  IF SortCompare(last, x, sortField, sortDirection) > 0
             THEN Append(InsertSorted(SubSeq(sorted, 1, Len(sorted) - 1), x,
                                      sortField, sortDirection), last)
             ELSE Append(sorted, x)

\* filtered.sort(comparator)
RECURSIVE Sorted(_, _, _)
Sorted(list, sortField, sortDirection) ==
    IF list = <<>> THEN <<>>
    ELSE InsertSorted(Sorted(SubSeq(list, 1, Len(list) - 1), sortField, sortDirection),
                      list[Len(list)], sortField, sortDirection)

\* matchesSearch: the song or band name, '' when missing, holds the term,
\* both in lower case.
MatchesSearch(song, searchTerm) ==
    LET songName == IF Prop(song, "song_name") = Undefined THEN <<>> ELSE song.song_name
        bandName == IF Prop(song, "band_name") = Undefined THEN <<>> ELSE song.band_name
    IN  \/ Includes(ToLowerCase(songName), ToLowerCase(searchTerm))
        \/ Includes(ToLowerCase(bandName), ToLowerCase(searchTerm))

\* processedSongs: the rows of the table.
ProcessedSongs(songs, sortField, sortDirection, searchTerm) ==
    Sorted(SelectSeq(songs, LAMBDA song : MatchesSearch(song, searchTerm)),
           sortField, sortDirection)

\* handleSort keeping the direction when another field is chosen.
HandleSortKeepingDirection(u, field) ==
    IF u.sortField = field
    THEN [u EXCEPT !.sortDirection = IF @ = "asc" THEN "desc" ELSE "asc"]
    ELSE [u EXCEPT !.sortField = field]

\* handleSort
HandleSort(u, field) ==
    IF u.sortField = field
    THEN [u EXCEPT !.sortDirection = IF @ = "asc" THEN "desc" ELSE "asc"]
    ELSE [u EXCEPT !.sortField = field, !.sortDirection = "asc"]

\* setTimeout(..., 3000) of showSuccess and duration={5000} of the
\* Notification, in seconds.
HideAfterSeconds == 3
DurationSeconds == 5

\* The state of the page before any listing arrived.  event and before are
\* records of the last handler that ran and of what it found.
InitUI ==
    [songs |-> <<>>, selectedYears |-> <<>>,
     mounted |-> FALSE, isOpen |-> FALSE, tempSelectedYears |-> <<>>,
     sortField |-> "band_name", sortDirection |-> "asc", searchTerm |-> <<>>,
     notification |-> [type |-> "success", message |-> "", isVisible |-> FALSE],
     hideTimers |-> <<>>, durationLeft |-> 0,
     event |-> [name |-> "mount", arg |-> <<>>],
     before |-> [sortField |-> "band_name", sortDirection |-> "asc",
                 type |-> "success", isVisible |-> FALSE]]

\* What a handler finds, and the handler's name and argument.
Handled(u, name, arg) ==
    [u EXCEPT !.event = [name |-> name, arg |-> arg],
              !.before = [sortField |-> u.sortField, sortDirection |-> u.sortDirection,
                          type |-> u.notification.type,
                          isVisible |-> u.notification.isVisible]]

\* SongsTable renders YearFilter only for a non-empty songs prop: a filter
\* that leaves nothing unmounts it, and it mounts again closed, with the
\* applied years as its pending selection.
Rendered(u) ==
    IF FilteredSongs(u.songs, u.selectedYears) = <<>>
    THEN [u EXCEPT !.mounted = FALSE, !.isOpen = FALSE, !.tempSelectedYears = <<>>]
    ELSE IF u.mounted THEN u
    ELSE [u EXCEPT !.mounted = TRUE, !.isOpen = FALSE,
                   !.tempSelectedYears = u.selectedYears]

TypeOK ==
    /\ store \in Seq([id : Nat, song_name : Seq(STRING), band_name : Seq(STRING), year : Int])
    /\ currentYear \in FirstYear..(FirstYear + YearSpan)
    /\ \A r \in Reqs :
        /\ req[r].kind \in {"none", "upload", "import", "list"}
        /\ req[r].pc \in {"idle", "inserting", "done"}

Init ==
    /\ store = <<>>
    /\ req = [r \in Reqs |-> IdleReq]
    /\ currentYear = FirstYear
    /\ client = InitClient
    /\ ui = InitUI

\* UploadCSV with the songs array kept in the service and shared by the
\* requests: the rows of a request still awaiting its insert come first.
UploadCSVSharedSongs(r, file) ==
    /\ req[r].pc = "idle"
    /\ LET q == [IdleReq EXCEPT !.kind = "upload", !.file = file,
                                 !.phases = <<"validating-type">>]
           p == [q EXCEPT !.loadCSVCalls = 1, !.phases = Append(@, "parsing")]
           other == CHOOSE o \in Reqs : o # r
           shared == IF req[other].pc = "inserting" THEN req[other].rows ELSE <<>>
           rows == shared \o LoadCSVParse(file.buffer, currentYear)
       IN  req' = [req EXCEPT ![r] =
                IF FileMissing(file)
                THEN BadRequest(q, <<"No file uploaded">>)
                ELSE IF ~IsCSVMimetype(file)
                THEN BadRequest(q, <<"File must be a CSV">>)
                ELSE IF ~file.hasBuffer
                THEN Rejected(p, "parse", ToStringOfUndefined,
                              <<ControllerPrefix("upload"), "CSV parsing error: ",
                                ToStringOfUndefined>>)
                ELSE IF NoValidSongs(rows)
                THEN Rejected(p, "no-songs", "",
                              <<ControllerPrefix("upload"), "No valid songs found in CSV file">>)
                ELSE [p EXCEPT !.pc = "inserting", !.rows = rows, !.insertCalls = 1,
                               !.phases = Append(@, "inserting")]]
    /\ UNCHANGED <<store, currentYear, client, ui>>

\* POST /songs/upload-csv: SongsController.uploadCSV up to the await of the
\* insert (validation, then the synchronous parse of SongsService.loadCSV).
UploadCSV(r, file) ==
    /\ req[r].pc = "idle"
    /\ LET q == [IdleReq EXCEPT !.kind = "upload", !.file = file,
                                 !.phases = <<"validating-type">>]
           p == [q EXCEPT !.loadCSVCalls = 1, !.phases = Append(@, "parsing")]
           rows == LoadCSVParse(file.buffer, currentYear)
       IN  req' = [req EXCEPT ![r] =
                IF FileMissing(file)
                THEN BadRequest(q, <<"No file uploaded">>)
                ELSE IF ~IsCSVMimetype(file)
                THEN BadRequest(q, <<"File must be a CSV">>)
                ELSE IF ~file.hasBuffer
                THEN Rejected(p, "parse", ToStringOfUndefined,
                              <<ControllerPrefix("upload"), "CSV parsing error: ",
                                ToStringOfUndefined>>)
                ELSE IF NoValidSongs(rows)
                THEN Rejected(p, "no-songs", "",
                              <<ControllerPrefix("upload"), "No valid songs found in CSV file">>)
                ELSE [p EXCEPT !.pc = "inserting", !.rows = rows, !.insertCalls = 1,
                               !.phases = Append(@, "inserting")]]
    /\ UNCHANGED <<store, currentYear, client, ui>>

\* POST /songs/import: SongsController.importCSV up to the await of the insert
\* (the stream's 'data' events, then its 'end' handler).
ImportCSV(r, content) ==
    /\ req[r].pc = "idle"
    /\ LET q == [IdleReq EXCEPT !.kind = "import", !.file = File("", content),
                                 !.phases = <<"parsing">>]
           rows == ImportCSVParse(content, currentYear)
       IN  req' = [req EXCEPT ![r] =
                IF Len(rows) = 0
                THEN Rejected(q, "no-songs", "",
                              <<ControllerPrefix("import"), "No valid songs found in CSV file">>)
                ELSE [q EXCEPT !.pc = "inserting", !.rows = rows, !.insertCalls = 1,
                               !.phases = Append(@, "inserting")]]
    /\ UNCHANGED <<store, currentYear, client, ui>>

\* POST /songs/import when the sample file cannot be read: the stream's
\* 'error' handler.
ImportCSVStreamError(r) ==
    /\ req[r].pc = "idle"
    /\ \E m \in {"ENOENT: no such file or directory"} :
        req' = [req EXCEPT ![r] =
            Rejected([IdleReq EXCEPT !.kind = "import", !.phases = <<"parsing">>],
                     "parse", m,
                     <<ControllerPrefix("import"), "CSV parsing error: ", m>>)]
    /\ UNCHANGED <<store, currentYear, client, ui>>

\* The awaited insert returns { error: null }.
InsertOk(r) ==
    /\ req[r].pc = "inserting"
    /\ Len(store) + Len(req[r].rows) <= MaxStore
    /\ store' = Inserted(store, Songs(req[r].rows))
    /\ req' = [req EXCEPT ![r] =
            Resolved(@, SuccessMessage(@.kind, Len(@.rows)))]
    /\ UNCHANGED <<currentYear, client, ui>>

\* InsertError with the first song of the batch stored before the error.
InsertErrorAfterFirstRow(r) ==
    /\ req[r].pc = "inserting"
    /\ Len(store) < MaxStore
    /\ store' = Inserted(store, SubSeq(Songs(req[r].rows), 1, 1))
    /\ \E m \in StoreErrors :
        req' = [req EXCEPT ![r] =
            Rejected(@, "insert-error", m,
                     <<ControllerPrefix(@.kind), "Database error: ", m>>)]
    /\ UNCHANGED <<currentYear, client, ui>>

\* InsertError falling through to resolve after it rejected.
InsertErrorThenResolves(r) ==
    /\ req[r].pc = "inserting"
    /\ \E m \in StoreErrors :
        req' = [req EXCEPT ![r] =
            [Rejected(@, "insert-error", m,
                      <<ControllerPrefix(@.kind), "Database error: ", m>>)
                EXCEPT !.resolved = @ + 1]]
    /\ UNCHANGED <<store, currentYear, client, ui>>

\* The awaited insert returns { error }.
InsertError(r) ==
    /\ req[r].pc = "inserting"
    /\ \E m \in StoreErrors :
        req' = [req EXCEPT ![r] =
            Rejected(@, "insert-error", m,
                     <<ControllerPrefix(@.kind), "Database error: ", m>>)]
    /\ UNCHANGED <<store, currentYear, client, ui>>

\* The awaited insert throws.
InsertThrows(r) ==
    /\ req[r].pc = "inserting"
    /\ \E m \in StoreErrors :
        req' = [req EXCEPT ![r] =
            Rejected(@, "insert-throws", m,
                     <<ControllerPrefix(@.kind), "Failed to save songs: ", m>>)]
    /\ UNCHANGED <<store, currentYear, client, ui>>

\* GET /songs: SongsController.getAll and SongsService.findAll, the table
\* answering with the ordered rows.
GetAll(r) ==
    /\ req[r].pc = "idle"
    /\ \E data \in SelectOrdered(store) :
        req' = [req EXCEPT ![r] =
            [Responded([IdleReq EXCEPT !.kind = "list"], 200, <<>>)
                EXCEPT !.data = "rows", !.body = DataOrEmpty(Defined(data))]]
    /\ UNCHANGED <<store, currentYear, client, ui>>

\* GET /songs, the table answering { data: null, error: null }.
GetAllNoData(r) ==
    /\ req[r].pc = "idle"
    /\ req' = [req EXCEPT ![r] =
            [Responded([IdleReq EXCEPT !.kind = "list"], 200, <<>>)
                EXCEPT !.data = "null", !.body = DataOrEmpty(Undefined)]]
    /\ UNCHANGED <<store, currentYear, client, ui>>

\* GET /songs, the table answering { error }.
GetAllError(r) ==
    /\ req[r].pc = "idle"
    /\ \E m \in StoreErrors :
        req' = [req EXCEPT ![r] =
            Responded([IdleReq EXCEPT !.kind = "list"], 500,
                      <<"Failed to fetch songs: ", "Failed to fetch songs: ", "Database error: ", m>>)]
    /\ UNCHANGED <<store, currentYear, client, ui>>

\* The response has been sent; the slot takes the next request.
Close(r) ==
    /\ req[r].pc = "done"
    /\ req' = [req EXCEPT ![r] = IdleReq]
    /\ UNCHANGED <<store, currentYear, client, ui>>

\* The calendar year changes.
NewYear ==
    /\ currentYear < FirstYear + YearSpan
    /\ currentYear' = currentYear + 1
    /\ UNCHANGED <<store, req, client, ui>>

Next ==
    \/ \E r \in Reqs :
        \/ \E file \in UploadFiles : UploadCSV(r, file)
        \/ \E content \in SampleFiles : ImportCSV(r, content)
        \/ ImportCSVStreamError(r)
        \/ InsertOk(r)
        \/ InsertError(r)
        \/ InsertThrows(r)
        \/ GetAll(r)
        \/ GetAllNoData(r)
        \/ GetAllError(r)
        \/ Close(r)
    \/ NewYear

Spec == Init /\ [][Next]_vars

(***************************************************************************)
(* The parse on its own: one upload of a generated CSV file into an empty  *)
(* table.                                                                  *)
(***************************************************************************)
HeaderPool ==
    {Chars("Song Name,Band,Year"), Chars("Song Name;Band;Year"), Chars("song;band,year")}

RowPool ==
    {Chars("Hey Jude,The Beatles,1968"),
     Chars("Hey Jude;The Beatles;1968"),
     Chars("A;b,C,7"),
     Chars("a,b"),
     Chars(" \"Q\" ,\" x\",0"),
     Chars(",b,1"),
     Chars("a,,1"),
     Chars(""),
     Chars("  "),
     Chars("a,b,"),
     Chars("a;b;12ab"),
     Chars("a,b,n/a"),
     Chars("a,b,1,c"),
     Chars("\" \",b,1"),
     Chars("a;b;-5"),
     Chars("a,B,1\r")}

RECURSIVE JoinLines(_)
JoinLines(lines) ==
    IF Len(lines) = 1 THEN lines[1] ELSE lines[1] \o <<"\n">> \o JoinLines(Tail(lines))

\* A file whose second data line has too few fields.
GappedCSV ==
    Chars("Song Name,Band,Year\nYesterday,The Beatles,1965\nLet It Be\nAngie,Rolling Stones,1973")

ParseFiles ==
    {File("text/csv", JoinLines(<<h>> \o rows)) :
        h \in HeaderPool, rows \in UNION {[1..n -> RowPool] : n \in 0..MaxRows}}
    \cup {File("text/csv", GappedCSV)}

NextParse ==
    \/ store = <<>> /\ req["r1"].pc = "idle" /\ \E file \in ParseFiles : UploadCSV("r1", file)
    \/ store = <<>> /\ req["r1"].pc = "idle" /\ \E content \in SampleFiles : ImportCSV("r1", content)
    \/ InsertOk("r1")
    \/ InsertError("r1")
    \/ InsertThrows("r1")
    \/ NewYear

SpecParse == Init /\ [][NextParse]_vars

(***************************************************************************)
(* One import of a generated sample file into an empty table: the          *)
(* specification under which importCSV is compared with loadCSV.           *)
(***************************************************************************)
\* A sample file with a quoted field that holds the separator.
QuotedCommaCSV == Chars("Song Name,Band,Year\n\"Hello, Goodbye\",The Beatles,1967")

ImportContents ==
    SampleFiles \cup UploadBuffers \cup {QuotedCommaCSV}
    \cup {JoinLines(<<h, row>>) : h \in HeaderPool, row \in RowPool}

NextImport ==
    \/ store = <<>> /\ req["r1"].pc = "idle" /\ \E content \in ImportContents : ImportCSV("r1", content)
    \/ ImportCSVStreamError("r1")
    \/ InsertOk("r1")
    \/ InsertError("r1")
    \/ InsertThrows("r1")
    \/ NewYear

SpecImport == Init /\ [][NextImport]_vars

(***************************************************************************)
(* The browser with the backend.  Slot r1 carries the GET /songs of the    *)
(* songs query, slot r2 the POST of the mutation: a slot is idle while the *)
(* request is on its way, done while the response is.  The user starts an  *)
(* upload or import when the previous one has settled.                     *)
(***************************************************************************)
\* The files the user drops.
DroppedFiles ==
    {File("text/csv", BeatlesCSV), File("text/csv", HeaderOnlyCSV),
     File("application/vnd.ms-excel", BeatlesCSV)}

\* The App mounts: useSongs subscribes and the first fetch starts.
UseSongsMount ==
    /\ ~client.mounted
    /\ client' = StartFetch([client EXCEPT !.mounted = TRUE])
    /\ UNCHANGED <<store, req, currentYear, ui>>

\* GET /songs answered 404 by the host (no such route).
GetAllNotFound(r) ==
    /\ req[r].pc = "idle"
    /\ req' = [req EXCEPT ![r] =
            Responded([IdleReq EXCEPT !.kind = "list"], 404, <<"Cannot GET /songs">>)]
    /\ UNCHANGED <<store, currentYear, client, ui>>

\* The backend answers the GET of the fetch in progress.
ServeGetSongs ==
    /\ client.fetchStatus = "fetching"
    /\ \/ GetAll("r1")
       \/ GetAllError("r1")
       \/ GetAllNotFound("r1")

\* apiService.getSongs returns response.data: the fetch succeeds.
GetSongsResolved ==
    /\ client.fetchStatus = "fetching"
    /\ req["r1"].pc = "done" /\ req["r1"].status = 200
    /\ client' = [client EXCEPT
            !.data = Defined(req["r1"].body), !.status = "success",
            !.fetchStatus = "idle", !.failureCount = 0, !.isInvalidated = FALSE,
            !.lastStatus = 200]
    /\ req' = [req EXCEPT !["r1"] = IdleReq]
    /\ UNCHANGED <<store, currentYear, ui>>

\* apiService.getSongs throws: the retryer asks retry(failureCount, error)
\* and either waits retryDelay(failureCount) or gives the error up.
GetSongsRejected ==
    /\ client.fetchStatus = "fetching"
    /\ req["r1"].pc = "done" /\ req["r1"].status >= 400
    /\ LET error == GetSongsError(AxiosError(req["r1"].status))
       IN  client' =
            IF QueryRetry(client.failureCount, error)
            THEN [client EXCEPT
                    !.failureCount = @ + 1, !.fetchStatus = "delaying",
                    !.delays = Append(@, QueryRetryDelay(client.failureCount)),
                    !.lastStatus = req["r1"].status]
            ELSE [client EXCEPT
                    !.status = "error", !.fetchStatus = "idle",
                    !.lastStatus = req["r1"].status]
    /\ req' = [req EXCEPT !["r1"] = IdleReq]
    /\ UNCHANGED <<store, currentYear, ui>>

\* The retry delay of the fetch has passed: the query function is called
\* again.
QueryRetryRuns ==
    /\ client.fetchStatus = "delaying"
    /\ client' = [client EXCEPT !.fetchStatus = "fetching", !.gets = @ + 1]
    /\ UNCHANGED <<store, req, currentYear, ui>>

\* s.endsWith(suffix)
EndsWith(s, suffix) ==
    Len(s) >= Len(suffix) /\ SubSeq(s, Len(s) - Len(suffix) + 1, Len(s)) = suffix

\* useDropzone's accept, { 'text/csv': ['.csv'], 'application/vnd.ms-excel':
\* ['.csv'] }: a file passes when its type is one of the listed types or its
\* name ends with one of the listed extensions.
DropzoneAccepts(name, type) ==
    \/ ToLowerCase(type) \in {Chars("text/csv"), Chars("application/vnd.ms-excel")}
    \/ EndsWith(ToLowerCase(name), Chars(".csv"))

\* onDrop: file.name.toLowerCase().endsWith('.csv')
OnDropAccepts(name) == EndsWith(ToLowerCase(name), Chars(".csv"))

\* A file passes the dropzone and onDrop's check of its name;
\* uploadMutation.mutate(file): onMutate cancels the fetch in progress,
\* keeps the cached list as previousSongs and adds the optimistic entry;
\* then apiService.uploadCSV sends the POST.
MutateUpload(file) ==
    /\ client.mounted /\ client.mState \in {"idle", "success", "error"}
    /\ DropzoneAccepts(DroppedFileName, file.mimetype)
    /\ OnDropAccepts(DroppedFileName)
    /\ client' =
        [SetQueryData(client,
            WithOptimisticSong(client.data, OptimisticSong(DroppedFileName, currentYear)))
         EXCEPT !.fetchStatus = "idle", !.failureCount = 0, !.lastStatus = 0,
                !.previousSongs = client.data,
                !.mutation = "upload", !.mState = "pending", !.mFile = file,
                !.mFailureCount = 0, !.posts = 1]
    /\ req' = [req EXCEPT !["r1"] = IdleReq]
    /\ UNCHANGED <<store, currentYear, ui>>

\* importMutation.mutate(): apiService.importCSV sends the POST.
MutateImport ==
    /\ client.mounted /\ client.mState \in {"idle", "success", "error"}
    /\ client' = [client EXCEPT
            !.mutation = "import", !.mState = "pending", !.mFile = NoFile,
            !.previousSongs = Undefined, !.mFailureCount = 0, !.posts = 1]
    /\ UNCHANGED <<store, req, currentYear, ui>>

\* The backend works on the POST of the mutation.
ServeMutation ==
    /\ client.mState = "pending"
    /\ \/ client.mutation = "upload" /\ UploadCSV("r2", client.mFile)
       \/ client.mutation = "import" /\ \E content \in SampleFiles : ImportCSV("r2", content)
       \/ InsertOk("r2")
       \/ InsertError("r2")

\* queryClient.invalidateQueries({ queryKey: songKeys.lists() }): the query
\* is marked invalidated and, being observed, refetched; a fetch in progress
\* is cancelled and replaced when the query holds data, kept otherwise.
InvalidateQueries(c) ==
    LET marked == [c EXCEPT !.isInvalidated = TRUE]
    IN  IF c.fetchStatus # "idle" /\ c.data = Undefined
        THEN marked
        ELSE StartFetch(marked)

\* The POST is answered 2xx: onSuccess invalidates the songs list.
MutationResolved ==
    /\ client.mState = "pending"
    /\ req["r2"].pc = "done" /\ req["r2"].status = 201
    /\ client' = [InvalidateQueries(client) EXCEPT
            !.mState = "success", !.expect = Len(store)]
    /\ req' = [req EXCEPT
            !["r2"] = IdleReq,
            !["r1"] = IF client.fetchStatus # "idle" /\ client.data = Undefined
                      THEN @ ELSE IdleReq]
    /\ UNCHANGED <<store, currentYear, ui>>

\* onError of useUploadCSV: if (context?.previousSongs) setQueryData(...)
RollBack(c) ==
    IF c.mutation = "upload" /\ c.previousSongs # Undefined
    THEN SetQueryData(c, c.previousSongs[1])
    ELSE c

\* The POST is answered outside 2xx: the mutation is retried while its
\* failure count is below retry, then onError runs.
MutationRejected ==
    /\ client.mState = "pending"
    /\ req["r2"].pc = "done" /\ req["r2"].status >= 400
    /\ client' =
        IF client.mFailureCount < MutationRetry
        THEN [client EXCEPT !.mFailureCount = @ + 1, !.mState = "delaying"]
        ELSE [RollBack(client) EXCEPT !.mState = "error"]
    /\ req' = [req EXCEPT !["r2"] = IdleReq]
    /\ UNCHANGED <<store, currentYear, ui>>

\* The retry delay of the mutation has passed: the POST is sent again.
MutationRetryRuns ==
    /\ client.mState = "delaying"
    /\ client' = [client EXCEPT !.mState = "pending", !.posts = @ + 1]
    /\ UNCHANGED <<store, req, currentYear, ui>>

NextClient ==
    \/ UseSongsMount
    \/ ServeGetSongs
    \/ GetSongsResolved
    \/ GetSongsRejected
    \/ QueryRetryRuns
    \/ \E file \in DroppedFiles : MutateUpload(file)
    \/ MutateImport
    \/ ServeMutation
    \/ MutationResolved
    \/ MutationRejected
    \/ MutationRetryRuns

SpecClient == Init /\ [][NextClient]_vars

(***************************************************************************)
(* The year filter: App's selectedYears and filteredSongs, the banner and  *)
(* the YearFilter dropdown, over the listings the songs query can hold.    *)
(***************************************************************************)
\* The rows GET /songs returns for a table of songs of the given years.
Listing(years) ==
    [k \in 1..Len(years) |->
        [id |-> k, song_name |-> Chars("hey jude"),
         band_name |-> Chars("the beatles"), year |-> years[k]]]

\* The years of the rows of a listing, one per row.
YearLists ==
    UNION {[1..n -> FirstYear..(FirstYear + YearSpan)] : n \in 0..MaxStore}

\* songs: songsQuery.data || [] changes, to a listing of the server or,
\* while an upload is pending, to one with the optimistic entry at its end.
SongsChanged ==
    \E years \in YearLists, uploading \in BOOLEAN :
        LET songs == IF uploading
                     THEN WithOptimisticSong(Defined(Listing(years)),
                              OptimisticSong(DroppedFileName, currentYear))
                     ELSE Listing(years)
        IN  /\ songs # ui.songs
            /\ ui' = Rendered([ui EXCEPT !.songs = songs])
            /\ UNCHANGED <<store, req, currentYear, client>>

\* The filter button: onClick={() => setIsOpen(!isOpen)}
ToggleDropdown ==
    /\ ui.mounted
    /\ ui' = [ui EXCEPT !.isOpen = ~ui.isOpen]
    /\ UNCHANGED <<store, req, currentYear, client>>

\* handleToggleYear, on an option of the open dropdown.
HandleToggleYear ==
    /\ ui.mounted /\ ui.isOpen
    /\ LET options == YearOptions(FilteredSongs(ui.songs, ui.selectedYears))
       IN  \E k \in 1..Len(options) :
             ui' = [ui EXCEPT !.tempSelectedYears =
                       IF ArrayIncludes(@, options[k])
                       THEN SelectSeq(@, LAMBDA y : y # options[k])
                       ELSE Append(@, options[k])]
    /\ UNCHANGED <<store, req, currentYear, client>>

\* handleSelectAll
HandleSelectAll ==
    /\ ui.mounted /\ ui.isOpen
    /\ ui' = [ui EXCEPT !.tempSelectedYears =
                 YearOptions(FilteredSongs(ui.songs, ui.selectedYears))]
    /\ UNCHANGED <<store, req, currentYear, client>>

\* handleClearAll
HandleClearAll ==
    /\ ui.mounted /\ ui.isOpen
    /\ ui' = Rendered([ui EXCEPT !.tempSelectedYears = <<>>,
                                 !.selectedYears = <<>>, !.isOpen = FALSE])
    /\ UNCHANGED <<store, req, currentYear, client>>

\* handleApplyFilter
HandleApplyFilter ==
    /\ ui.mounted /\ ui.isOpen
    /\ ui' = Rendered([ui EXCEPT !.selectedYears = ui.tempSelectedYears,
                                 !.isOpen = FALSE])
    /\ UNCHANGED <<store, req, currentYear, client>>

\* The X of the banner: onClick={() => setSelectedYears([])}
ClearFilterBanner ==
    /\ Len(ui.selectedYears) > 0
    /\ ui' = Rendered([ui EXCEPT !.selectedYears = <<>>])
    /\ UNCHANGED <<store, req, currentYear, client>>

NextFilter ==
    \/ SongsChanged
    \/ ToggleDropdown
    \/ HandleToggleYear
    \/ HandleSelectAll
    \/ HandleClearAll
    \/ HandleApplyFilter
    \/ ClearFilterBanner

SpecFilter == Init /\ [][NextFilter]_vars

(***************************************************************************)
(* The table: SongsTable's search box and sort headers over the listings   *)
(* the songs query can hold, with no year selected.                        *)
(***************************************************************************)
\* The songs of the table behind the listings, in band_name order.
Catalogue ==
    <<[song_name |-> Chars("dancing queen"), band_name |-> Chars("abba"),
       year |-> FirstYear + YearSpan],
      [song_name |-> Chars("angie"), band_name |-> Chars("rolling stones"),
       year |-> FirstYear],
      [song_name |-> Chars("yesterday"), band_name |-> Chars("the beatles"),
       year |-> FirstYear + YearSpan]>>

\* The listings GET /songs can return: rows of the catalogue, band names
\* ascending.
TableListings ==
    {[k \in 1..Len(picks) |->
        [id |-> k, song_name |-> Catalogue[picks[k]].song_name,
         band_name |-> Catalogue[picks[k]].band_name,
         year |-> Catalogue[picks[k]].year]] :
     picks \in {p \in UNION {[1..n -> 1..Len(Catalogue)] : n \in 0..MaxStore} :
                   \A i, j \in DOMAIN p : i < j => p[i] <= p[j]}}

SearchTerms == {<<>>, Chars("an"), Chars("BE"), Chars("zz")}

\* songs changes, as in SongsChanged, under a mounted table.
TableSongsChanged ==
    \E listing \in TableListings, uploading \in BOOLEAN :
        LET songs == IF uploading
                     THEN WithOptimisticSong(Defined(listing),
                              OptimisticSong(DroppedFileName, currentYear))
                     ELSE listing
        IN  /\ songs # ui.songs
            /\ ui' = Rendered(Handled([ui EXCEPT !.songs = songs], "songs", ""))
            /\ UNCHANGED <<store, req, currentYear, client>>

\* A column header of the list view is clicked; the headers are rendered
\* when the table has songs.
SortClicked ==
    /\ FilteredSongs(ui.songs, ui.selectedYears) # <<>>
    /\ \E field \in {"song_name", "band_name", "year"} :
         ui' = HandleSort(Handled(ui, "handleSort", field), field)
    /\ UNCHANGED <<store, req, currentYear, client>>

\* The search box: onChange={(e) => setSearchTerm(e.target.value)}
SearchTyped ==
    /\ FilteredSongs(ui.songs, ui.selectedYears) # <<>>
    /\ \E term \in SearchTerms :
         /\ term # ui.searchTerm
         /\ ui' = [Handled(ui, "setSearchTerm", "") EXCEPT !.searchTerm = term]
    /\ UNCHANGED <<store, req, currentYear, client>>

\* App shows the spinner or the error panel in the table's place and then
\* the table again: SongsTable and YearFilter start from their initial state.
TableRemounted ==
    /\ ui' = Rendered(
                [Handled(ui, "mount", "") EXCEPT
                    !.sortField = InitUI.sortField,
                    !.sortDirection = InitUI.sortDirection,
                    !.searchTerm = InitUI.searchTerm,
                    !.mounted = FALSE])
    /\ UNCHANGED <<store, req, currentYear, client>>

NextTable ==
    \/ TableSongsChanged
    \/ SortClicked
    \/ SearchTyped
    \/ TableRemounted

SpecTable == Init /\ [][NextTable]_vars

(***************************************************************************)
(* The notification: App's showSuccess / showError / hideNotification and  *)
(* the Notification component's timer, with time counted in seconds.       *)
(***************************************************************************)
\* The messages FileUpload hands to onUploadSuccess / onImportSuccess.
SuccessNotices == {"Successfully uploaded songs", "Successfully imported songs from file"}

\* The messages FileUpload hands to onUploadError / onImportError.
ErrorNotices == {"Please upload a CSV file", "Upload failed", "Import failed"}

\* Notification's effect runs on every render of App (onClose is a new
\* function each time): its timer is cleared and, when the notification is
\* visible, started again.
EffectRun(u) ==
    [u EXCEPT !.durationLeft = IF u.notification.isVisible THEN DurationSeconds ELSE 0]

\* showSuccess: the notification is shown and a timer is started that hides
\* whatever notification there is after 3000 ms; it is never cleared.
ShowSuccess(u, message) ==
    EffectRun([u EXCEPT
        !.notification = [type |-> "success", message |-> message, isVisible |-> TRUE],
        !.hideTimers = Append(@, HideAfterSeconds)])

\* showError
ShowError(u, error) ==
    EffectRun([u EXCEPT
        !.notification = [type |-> "error", message |-> error, isVisible |-> TRUE]])

\* hideNotification, and the callback of showSuccess's timer:
\* setNotification(prev => ({ ...prev, isVisible: false }))
Hidden(u) == EffectRun([u EXCEPT !.notification.isVisible = FALSE])

\* An upload or import succeeded.
SuccessShown ==
    /\ Len(ui.hideTimers) < MaxTimers
    /\ \E message \in SuccessNotices :
         ui' = ShowSuccess(Handled(ui, "showSuccess", ""), message)
    /\ UNCHANGED <<store, req, currentYear, client>>

\* An upload or import failed, or the dropped file's name lacks .csv.
ErrorShown ==
    /\ \E error \in ErrorNotices :
         ui' = ShowError(Handled(ui, "showError", ""), error)
    /\ UNCHANGED <<store, req, currentYear, client>>

\* The X of the notification: onClick={onClose}
CloseClicked ==
    /\ ui.notification.isVisible
    /\ ui' = Hidden(Handled(ui, "hideNotification", ""))
    /\ UNCHANGED <<store, req, currentYear, client>>

\* Notification's timer has run for its duration: onClose()
DurationElapsed ==
    /\ ui.notification.isVisible /\ ui.durationLeft = 0
    /\ ui' = Hidden(Handled(ui, "duration", ""))
    /\ UNCHANGED <<store, req, currentYear, client>>

\* The oldest timer of showSuccess is due: its callback hides the
\* notification.
HideTimerFires ==
    /\ ui.hideTimers # <<>> /\ Head(ui.hideTimers) = 0
    /\ ui' = Hidden([Handled(ui, "hideTimer", "") EXCEPT !.hideTimers = Tail(@)])
    /\ UNCHANGED <<store, req, currentYear, client>>

\* A second passes; no timer is overdue.
Tick ==
    /\ \A k \in 1..Len(ui.hideTimers) : ui.hideTimers[k] > 0
    /\ ui.notification.isVisible => ui.durationLeft > 0
    /\ ui.hideTimers # <<>> \/ ui.notification.isVisible
    /\ ui' = [ui EXCEPT
                !.hideTimers = [k \in 1..Len(@) |-> @[k] - 1],
                !.durationLeft = IF ui.notification.isVisible THEN @ - 1 ELSE @]
    /\ UNCHANGED <<store, req, currentYear, client>>

NextNotify ==
    \/ SuccessShown
    \/ ErrorShown
    \/ CloseClicked
    \/ DurationElapsed
    \/ HideTimerFires
    \/ Tick

SpecNotify == Init /\ [][NextNotify]_vars

(***************************************************************************)
(* Properties.  The fields of a row are described here by the positions of *)
(* the delimiter, independently of the parse above.                        *)
(***************************************************************************)
\* The positions of character c in text s.
Cuts(s, c) == {i \in 1..Len(s) : s[i] = c}

\* The position of the n-th c in s; 0 for n = 0, past the end when s has fewer.
NthCut(s, c, n) ==
    LET cuts == Cuts(s, c)
    IN  IF n = 0 THEN 0
        ELSE IF n > Cardinality(cuts) THEN Len(s) + 1
        ELSE CHOOSE i \in cuts : Cardinality({j \in cuts : j < i}) = n - 1

\* How many fields the separator c cuts s into, and the k-th of them (from 0).
FieldCount(s, c) == Cardinality(Cuts(s, c)) + 1
Field(s, c, k) == SubSeq(s, NthCut(s, c, k) + 1, NthCut(s, c, k + 1) - 1)

\* Line i (from 0) of an uploaded buffer, and the delimiter its header names.
LineOf(buffer, i) == Field(buffer, "\n", i)
HeaderDelimiter(buffer) == IF Cuts(LineOf(buffer, 0), ";") # {} THEN ";" ELSE ","

\* A field without its quotes, without surrounding whitespace, in lower case.
Normalized(field) == ToLowerCase(Trim(SelectSeq(field, LAMBDA c : c # "\"")))

\* A request that passed the type validation and was handed to loadCSV.
Parsed(q) == q.kind = "upload" /\ q.loadCSVCalls = 1

\* The request in slot r arrives in this step.
Arrives(r, kind) == req[r].pc = "idle" /\ req'[r].kind = kind

\* C1: an upload without a file, or with a file whose declared media type
\* does not contain "csv", is answered 400 in the step it arrives: loadCSV is
\* not called, no insert is issued and the table is unchanged.
DeclaresCSV(mimetype) ==
    \E i \in 1..(Len(mimetype) - 2) :
        mimetype[i] = "c" /\ mimetype[i + 1] = "s" /\ mimetype[i + 2] = "v"

TypeRejected(file) == ~file.present \/ ~DeclaresCSV(file.mimetype)

C1_RejectedBeforeParsing ==
    [][\A r \in Reqs :
        Arrives(r, "upload") /\ TypeRejected(req'[r].file) =>
            /\ req'[r].pc = "done"
            /\ req'[r].status = 400
            /\ req'[r].loadCSVCalls = 0
            /\ req'[r].insertCalls = 0
            /\ store' = store]_vars

C1_Witness ==
    \E r \in Reqs :
        /\ req[r].kind = "upload" /\ req[r].status = 400
        /\ req[r].file.present /\ req[r].file.mimetype = Chars("image/jpeg")
        /\ store # <<>>

C3_ZeroRowsIsClientError ==
    \A r \in Reqs :
        Parsed(req[r]) /\ req[r].pc = "done"
            /\ LoadCSVParse(req[r].file.buffer, currentYear) = <<>> =>
            req[r].status \in 400..499

\* C4: a successful upload of "band,song,year\nThe Beatles,Hey Jude,1968"
\* appends exactly one row to the table, holding the given song.
BeatlesUploadStores(song) ==
    \A r \in Reqs :
        /\ req[r].kind = "upload" /\ req[r].pc = "inserting"
        /\ req[r].file.buffer = BeatlesCSV
        /\ req'[r].status = 201
        => /\ Len(store') = Len(store) + 1
           /\ SubSeq(store', 1, Len(store)) = store
           /\ LET row == store'[Len(store')]
              IN  /\ row.song_name = song.song_name
                  /\ row.band_name = song.band_name
                  /\ row.year = song.year

\* C4 as stated: song_name "hey jude", band_name "the beatles".
C4_AsStated ==
    [][BeatlesUploadStores([song_name |-> Chars("hey jude"),
                            band_name |-> Chars("the beatles"),
                            year |-> 1968])]_vars

\* C4 amended: the fields are positional, the song name first, so the stored
\* row has song_name "the beatles", band_name "hey jude" and year 1968.
C4_StoresPositionally ==
    [][BeatlesUploadStores([song_name |-> Chars("the beatles"),
                            band_name |-> Chars("hey jude"),
                            year |-> 1968])]_vars

C4_Witness ==
    \E r \in Reqs :
        /\ req[r].kind = "upload" /\ req[r].status = 201
        /\ req[r].file.buffer = BeatlesCSV
        /\ \E k \in 1..Len(store) : store[k].song_name = Chars("the beatles")

\* The file line a parsed row of request q came from.
SourceLine(q, row) == LineOf(q.file.buffer, row.line)

\* C5: for every row loadCSV accepts, the song name is field 0 and the band
\* name is field 1 of its line, without quotes, trimmed and in lower case.
C5_NamesAreNormalizedFields ==
    \A r \in Reqs :
        Parsed(req[r]) =>
            \A k \in 1..Len(req[r].rows) :
                LET row == req[r].rows[k]
                    line == SourceLine(req[r], row)
                    d == HeaderDelimiter(req[r].file.buffer)
                IN  /\ row.song.song_name = Normalized(Field(line, d, 0))
                    /\ row.song.band_name = Normalized(Field(line, d, 1))

C5_Witness ==
    \E k \in 1..Len(store) :
        /\ store[k].song_name = <<"q">>
        /\ store[k].band_name = <<"x">>
        /\ req["r1"].status = 201
        /\ \E j \in 1..Len(req["r1"].rows) :
            SourceLine(req["r1"], req["r1"].rows[j]) = Chars(" \"Q\" ,\" x\",0")

\* C6: every row of the table, and every row on its way to it, has a song
\* name and a band name that are non-empty in their stored, normalized form;
\* and a request fails with "No valid songs" only when no row of its file
\* was accepted, so a dropped row alone fails nothing.
NonEmptyNames(song) ==
    /\ song.song_name # <<>> /\ Trim(song.song_name) = song.song_name
    /\ song.band_name # <<>> /\ Trim(song.band_name) = song.band_name

\* Whether request q's file holds a data line with enough fields under
\* delimiter d of which the song name or the band name is empty.
HasRowWithEmptyName(q) ==
    \E i \in 1..(FieldCount(q.file.buffer, "\n") - 1) :
        LET line == LineOf(q.file.buffer, i)
            d == HeaderDelimiter(q.file.buffer)
        IN  FieldCount(line, d) >= 3
            /\ (Normalized(Field(line, d, 0)) = <<>> \/ Normalized(Field(line, d, 1)) = <<>>)

\* Whether request q's file holds a data line with three fields and both names.
HasCompleteRow(q) ==
    \E i \in 1..(FieldCount(q.file.buffer, "\n") - 1) :
        LET line == LineOf(q.file.buffer, i)
            d == HeaderDelimiter(q.file.buffer)
        IN  FieldCount(line, d) >= 3
            /\ Normalized(Field(line, d, 0)) # <<>>
            /\ Normalized(Field(line, d, 1)) # <<>>

C6_StoredNamesNonEmpty ==
    /\ \A k \in 1..Len(store) : NonEmptyNames(store[k])
    /\ \A r \in Reqs :
        /\ \A k \in 1..Len(req[r].rows) : NonEmptyNames(req[r].rows[k].song)
        /\ req[r].kind \in {"upload", "import"} /\ req[r].insertCalls = 1 =>
            \/ Len(req[r].rows) < FieldCount(req[r].file.buffer, "\n") - 1
            \/ ~HasRowWithEmptyName(req[r])
        /\ req[r].kind = "import" \/ Parsed(req[r]) =>
            \/ req[r].insertCalls = 1 /\ req[r].rows # <<>>
            \/ ~HasCompleteRow(req[r])

C6_Witness ==
    \E r1, r2 \in Reqs :
        /\ req[r1].kind = "upload" /\ req[r1].status = 201 /\ HasRowWithEmptyName(req[r1])
        /\ req[r2].kind = "import" /\ req[r2].status = 201 /\ HasRowWithEmptyName(req[r2])
        /\ Len(store) = 2

\* Whether the parse must accept a line under delimiter d.
Acceptable(line, d) ==
    /\ FieldCount(line, d) >= 3
    /\ Normalized(Field(line, d, 0)) # <<>>
    /\ Normalized(Field(line, d, 1)) # <<>>

\* The lines (from 1) of request q's file that its parse accepted.
AcceptedLines(q) == {q.rows[k].line : k \in 1..Len(q.rows)}

\* C7: the rows loadCSV accepts are the data lines acceptable under the one
\* delimiter the header names: semicolon when the header holds a semicolon,
\* comma otherwise, whatever the row itself holds.
C7_DelimiterFromHeader ==
    \A r \in Reqs :
        Parsed(req[r]) =>
            AcceptedLines(req[r]) =
                {i \in 1..(FieldCount(req[r].file.buffer, "\n") - 1) :
                    Acceptable(LineOf(req[r].file.buffer, i),
                               HeaderDelimiter(req[r].file.buffer))}

C7_Witness ==
    /\ req["r1"].pc = "inserting"
    /\ req["r1"].file.buffer =
        Chars("Song Name,Band,Year\nHey Jude;The Beatles;1968\nA;b,C,7")
    /\ AcceptedLines(req["r1"]) = {2}

\* C8: no accepted row comes from a line of fewer than 3 fields, and an
\* upload whose data lines all have fewer than 3 fields ends in a failure
\* without an insert.
FewFields(q, i) ==
    FieldCount(LineOf(q.file.buffer, i), HeaderDelimiter(q.file.buffer)) < 3

C8_ShortRowsExcluded ==
    \A r \in Reqs :
        Parsed(req[r]) =>
            /\ \A i \in AcceptedLines(req[r]) : ~FewFields(req[r], i)
            /\ (\A i \in 1..(FieldCount(req[r].file.buffer, "\n") - 1) : FewFields(req[r], i))
                => req[r].pc = "done" /\ req[r].status >= 400 /\ req[r].insertCalls = 0

C8_Witness ==
    /\ req["r1"].status = 201
    /\ req["r1"].file.buffer = Chars("Song Name,Band,Year\na,b\na,B,1\r")
    /\ AcceptedLines(req["r1"]) = {2}

\* C9: in the step an upload is parsed, an accepted row whose year field has
\* no leading integer gets the current year, and one whose year field is an
\* integer gets that integer.
IsInteger(field) ==
    LET t == Trim(field)
        u == IF t # <<>> /\ Head(t) \in {"+", "-"} THEN Tail(t) ELSE t
    IN  u # <<>> /\ \A i \in 1..Len(u) : IsDigit(u[i])

IntegerValue(field) ==
    LET t == Trim(field)
    IN  IF Head(t) = "-" THEN 0 - DigitsValue(Tail(t))
        ELSE IF Head(t) = "+" THEN DigitsValue(Tail(t))
        ELSE DigitsValue(t)

NotNumeric(field) ==
    LET t == Trim(field)
        u == IF t # <<>> /\ Head(t) \in {"+", "-"} THEN Tail(t) ELSE t
    IN  u = <<>> \/ ~IsDigit(Head(u))

C9_YearAsStated ==
    [][\A r \in Reqs :
        Arrives(r, "upload") =>
            \A k \in 1..Len(req'[r].rows) :
                LET row == req'[r].rows[k]
                    field == Normalized(Field(SourceLine(req'[r], row),
                                              HeaderDelimiter(req'[r].file.buffer), 2))
                IN  /\ NotNumeric(field) => row.song.year = currentYear
                    /\ IsInteger(field) => row.song.year = IntegerValue(field)]_vars

\* C10: a listing answered with data returns every row of the table exactly
\* once, in ascending band_name order ("queen" before "the beatles"); a
\* listing answered with no data returns the empty array with status 200.
Position(body, band) == CHOOSE k \in 1..Len(body) : body[k].band_name = Chars(band)

C10_ListingOrdered ==
    [][\A r \in Reqs :
        Arrives(r, "list") /\ req'[r].status = 200 =>
            LET body == req'[r].body
            IN  IF req'[r].data = "null"
                THEN body = <<>>
                ELSE /\ Len(body) = Len(store)
                     /\ \A i \in 1..Len(store) :
                            Cardinality({k \in 1..Len(body) : body[k] = store[i]}) = 1
                     /\ \A j, k \in 1..Len(body) :
                            j < k => TextLeq(body[j].band_name, body[k].band_name)
                     /\ (\E j, k \in 1..Len(body) :
                            /\ body[j].band_name = Chars("queen")
                            /\ body[k].band_name = Chars("the beatles"))
                        => Position(body, "queen") < Position(body, "the beatles")]_vars

C10_Witness ==
    \E r \in Reqs :
        /\ req[r].kind = "list" /\ req[r].status = 200 /\ req[r].data = "rows"
        /\ Len(req[r].body) = 2
        /\ req[r].body[1].band_name = Chars("queen") /\ req[r].body[1].id = 2
        /\ req[r].body[2].band_name = Chars("the beatles") /\ req[r].body[2].id = 1


\* The number of rows of a table, or of songs of a batch, that hold the
\* fields of song.
Copies(list, song) ==
    Cardinality({i \in 1..Len(list) :
        /\ list[i].song_name = song.song_name
        /\ list[i].band_name = song.band_name
        /\ list[i].year = song.year})

\* The request in slot r is answered with success in this step.
Succeeds(r) == req[r].pc = "inserting" /\ req'[r].status = 201

\* Another slot holds the successful answer to the same file as slot r's.
UploadedBefore(r) ==
    \E o \in Reqs \ {r} :
        /\ req[o].status = 201
        /\ req[o].kind = req[r].kind
        /\ req[o].file = req[r].file
        /\ req[o].rows = req[r].rows

\* C11: a successful upload lengthens the table by the number of rows it
\* accepted and adds one copy of each, whether or not equal rows are already
\* stored; after the second successful upload of one file every accepted row
\* is stored at least twice.
C11_NoDeduplication ==
    [][\A r \in Reqs :
        Succeeds(r) =>
            LET batch == Songs(req[r].rows)
            IN  /\ Len(store') = Len(store) + Len(batch)
                /\ \A k \in 1..Len(batch) :
                    /\ Copies(store', batch[k]) = Copies(store, batch[k]) + Copies(batch, batch[k])
                    /\ UploadedBefore(r) => Copies(store', batch[k]) >= 2 * Copies(batch, batch[k])]_vars

C11_Witness ==
    /\ \A r \in Reqs :
        /\ req[r].kind = "upload" /\ req[r].status = 201
        /\ req[r].file = File("text/csv", BeatlesCSV)
    /\ Len(store) = 2
    /\ Copies(store, store[1]) = 2


\* The request in slot r is answered in this step, and not with success.
Fails(r) == req[r].pc # "done" /\ req'[r].pc = "done" /\ req'[r].status # 201

\* The listing request in slot r is answered in this step.
Lists(r) == req[r].pc = "idle" /\ req'[r].kind = "list"

\* C12: every step keeps the rows the table holds, in place and unmodified;
\* the table changes only in a step that answers an upload or import with
\* success, and a listing or a failing upload or import leaves it as it was.
C12_StoreOnlyGrows ==
    [][/\ Len(store') >= Len(store)
       /\ \A i \in 1..Len(store) : store'[i] = store[i]
       /\ store' # store => \E r \in Reqs : Succeeds(r) /\ req[r].kind \in {"upload", "import"}
       /\ \A r \in Reqs : Fails(r) \/ Lists(r) => store' = store]_vars

C12_Witness ==
    /\ Len(store) = 2
    /\ req["r1"].kind = "list" /\ req["r1"].status = 200 /\ Len(req["r1"].body) = 2
    /\ req["r2"].kind = "import" /\ req["r2"].failure = "insert-error"


\* The parse of the request threw, or the table answered its insert with an
\* error or the client threw.
ParseOrStoreFailed(q) == q.failure \in {"parse", "insert-error", "insert-throws"}

\* C13: an upload whose parse threw or whose insert was rejected is answered
\* with a 5xx status, never with success, and the message of the response
\* ends with the message of the error that was caught, unchanged.
C13_FailureCarriesCause ==
    \A r \in Reqs :
        req[r].kind = "upload" /\ ParseOrStoreFailed(req[r]) =>
            /\ req[r].pc = "done"
            /\ req[r].status \in 500..599
            /\ req[r].resolved = 0
            /\ req[r].cause # ""
            /\ req[r].message # <<>>
            /\ req[r].message[Len(req[r].message)] = req[r].cause

C13_Witness ==
    /\ req["r1"].kind = "upload" /\ req["r1"].failure = "parse"
    /\ req["r1"].message[3] = ToStringOfUndefined
    /\ req["r2"].kind = "upload" /\ req["r2"].failure = "insert-error"
    /\ req["r2"].message = <<"Failed to process CSV file: ", "Database error: ", "Upload failed">>


\* The years the clock can show.
Years == FirstYear..(FirstYear + YearSpan)

\* C14 (as stated): the rows importCSV accepted from a content are the rows
\* loadCSV accepts from the same content, with the same field values, so that
\* both end in the same outcome class.
C14_ImportMatchesUpload ==
    \A r \in Reqs :
        req[r].kind = "import" /\ req[r].file.present =>
            \E y \in Years :
                Songs(req[r].rows) = Songs(LoadCSVParse(req[r].file.buffer, y))


\* The phases of an upload before its outcome, in order.
UploadPath == <<"validating-type", "parsing", "inserting">>

\* The phases request q passed are the first n of the path, followed by at
\* most one outcome.
PassedInOrder(q, n) ==
    \/ q.phases = SubSeq(UploadPath, 1, n) /\ n = 3 /\ q.pc = "inserting"
    \/ /\ q.phases = SubSeq(UploadPath, 1, n) \o <<"failed">>
       /\ q.pc = "done" /\ q.status \in 400..599
    \/ /\ q.phases = SubSeq(UploadPath, 1, n) \o <<"success">>
       /\ n = 3 /\ q.pc = "done" /\ q.status = 201

\* C15: an upload passes validating-type, parsing and inserting in this
\* order and ends in exactly one of success and failed; it is inserting only
\* when its type was accepted and its parse produced a record; the promise of
\* loadCSV is settled at most once, exactly once when the request is
\* answered, resolved exactly when the answer is the success, and a request
\* that is not answered is awaiting the table.
C15_UploadStateMachine ==
    \A r \in Reqs :
        LET q == req[r]
        IN  q.kind = "upload" =>
                /\ \E n \in 1..3 : PassedInOrder(q, n)
                /\ (\E i \in 1..Len(q.phases) : q.phases[i] = "inserting") =>
                        /\ q.file.present /\ DeclaresCSV(q.file.mimetype)
                        /\ Len(q.rows) >= 1
                        /\ q.insertCalls = 1
                /\ q.resolved + q.rejected <= 1
                /\ q.pc = "done" /\ q.loadCSVCalls = 1 => q.resolved + q.rejected = 1
                /\ q.resolved = 1 <=> q.status = 201
                /\ q.pc # "done" => q.pc = "inserting" /\ q.resolved + q.rejected = 0

C15_Witness ==
    /\ req["r1"].kind = "upload"
    /\ req["r1"].phases = <<"validating-type", "parsing", "inserting", "success">>
    /\ req["r2"].kind = "upload"
    /\ req["r2"].phases = <<"validating-type", "parsing", "inserting", "failed">>


\* The table answers the insert of the request in slot r with an error, or
\* the client throws, in this step.
StoreRejects(r) ==
    req[r].pc = "inserting" /\ req'[r].failure \in {"insert-error", "insert-throws"}

\* The fields of a stored row.
FieldsOf(row) == [song_name |-> row.song_name, band_name |-> row.band_name, year |-> row.year]

\* C16: a successful upload has issued one insert, whose batch is all the
\* records it accepted, appended to the table in the step that answers it;
\* when the insert is rejected the table is left as it was; no request
\* issues more than one insert and an answered request does nothing more.
C16_OneBatchAllOrNothing ==
    [][\A r \in Reqs :
        /\ req'[r].insertCalls <= 1
        /\ Succeeds(r) /\ req[r].kind = "upload" =>
            /\ req'[r].insertCalls = 1
            /\ Len(store') = Len(store) + Len(req[r].rows)
            /\ \A i \in 1..Len(store) : store'[i] = store[i]
            /\ \A k \in 1..Len(req[r].rows) :
                FieldsOf(store'[Len(store) + k]) = req[r].rows[k].song
        /\ StoreRejects(r) /\ req[r].kind = "upload" =>
            /\ store' = store
            /\ req'[r].insertCalls = 1
            /\ req'[r].pc = "done" /\ req'[r].status = 500
        /\ req[r].pc = "done" => req'[r] = req[r] \/ req'[r].pc = "idle"]_vars

C16_Witness ==
    /\ req["r1"].kind = "upload" /\ req["r1"].status = 201
    /\ Len(req["r1"].rows) = 2 /\ Len(store) = 2 /\ req["r1"].insertCalls = 1
    /\ req["r2"].kind = "upload" /\ req["r2"].failure = "insert-error"
    /\ req["r2"].insertCalls = 1


\* The data lines of request q's file that are acceptable under the
\* delimiter its header names.
ValidLines(q) ==
    {i \in 1..(FieldCount(q.file.buffer, "\n") - 1) :
        Acceptable(LineOf(q.file.buffer, i), HeaderDelimiter(q.file.buffer))}

OwnRows(q) ==
    /\ q.kind = "upload" /\ ~Parsed(q) => q.rows = <<>>
    /\ Parsed(q) =>
        /\ AcceptedLines(q) = ValidLines(q)
        /\ Len(q.rows) = Cardinality(ValidLines(q))
        /\ \A k \in 1..Len(q.rows) :
            LET line == SourceLine(q, q.rows[k])
                d == HeaderDelimiter(q.file.buffer)
            IN  /\ q.rows[k].song.song_name = Normalized(Field(line, d, 0))
                /\ q.rows[k].song.band_name = Normalized(Field(line, d, 1))
    /\ q.kind = "import" =>
        \E y \in Years : q.rows = ImportCSVParse(q.file.buffer, y)

\* C18: whatever the other slot is doing, the rows a request holds are those
\* of its own file, the step that answers it with success appends exactly
\* its own batch to what the table held, and the table changes in no other
\* step: the table is the prior content with the batches of the successful
\* requests.
C18_RequestsShareOnlyTheStore ==
    [][/\ \A r \in Reqs :
            IF req[r].pc = "idle"
            THEN OwnRows(req'[r])
            ELSE req'[r].pc # "idle" =>
                    req'[r].rows = req[r].rows /\ req'[r].file = req[r].file
       /\ \A r \in Reqs :
            Succeeds(r) =>
                /\ Len(store') = Len(store) + Len(req[r].rows)
                /\ \A i \in 1..Len(store) : store'[i] = store[i]
                /\ \A k \in 1..Len(req[r].rows) :
                    FieldsOf(store'[Len(store) + k]) = req[r].rows[k].song
                /\ \A o \in Reqs \ {r} : req'[o] = req[o]
       /\ (\A r \in Reqs : ~Succeeds(r)) => store' = store]_vars

\* Two requests with different files await their inserts at the same time,
\* the table already holding a row.
C18_Witness ==
    /\ req["r1"].kind = "upload" /\ req["r1"].pc = "inserting"
    /\ req["r2"].kind = "import" /\ req["r2"].pc = "inserting"
    /\ req["r1"].file.buffer # req["r2"].file.buffer
    /\ Songs(req["r1"].rows) # Songs(req["r2"].rows)


\* The mutation settles with success in this step.
MutationSucceeds == client.mState = "pending" /\ client'.mState = "success"

\* A fetch of the invalidated songs list completes with a listing in this
\* step.
RefetchCompletes ==
    /\ client.isInvalidated /\ client.fetchStatus = "fetching"
    /\ client'.fetchStatus = "idle" /\ client'.lastStatus = 200

\* The rows the table held when the last mutation succeeded are in list.
ShowsInserted(list) ==
    \A i \in 1..client.expect : \E k \in 1..Len(list) : list[k] = store[i]

\* C19 (as stated): the step in which an upload or import mutation succeeds
\* invalidates the songs list and leaves a fetch of it in progress, and when
\* the fetch of the invalidated list completes the cache holds the listing
\* the server answered, with the rows the mutation inserted.
C19_RefetchShowsInserted ==
    [][/\ MutationSucceeds => client'.isInvalidated /\ client'.fetchStatus # "idle"
       /\ RefetchCompletes =>
            /\ client'.data = Defined(req["r1"].body)
            /\ ShowsInserted(client'.data[1])]_vars


\* C20 (as stated): once a GET of the fetch in progress has been answered
\* with a 4xx status, the songs query is in the error state with no fetch in
\* progress: no retry is waited for and no further GET is sent.
C20_ClientErrorNotRetried ==
    client.lastStatus \in 400..499 =>
        client.status = "error" /\ client.fetchStatus = "idle"


\* C21 (as stated): an upload or import the user started has sent at most
\* one POST request, also after that request failed.
C21_OnePostPerMutation ==
    client.mutation \in {"upload", "import"} => client.posts <= 1


\* The listing's record i is among the rows the page shows.
Shown(i) ==
    LET shown == FilteredSongs(ui.songs, ui.selectedYears)
    IN  \E k \in 1..Len(shown) : shown[k] = ui.songs[i]

\* C22 (as stated): a fetched record is shown exactly when no year is
\* selected or its year is among the selected years.
C22_ShownIffYearSelected ==
    \A i \in 1..Len(ui.songs) :
        "year" \in DOMAIN ui.songs[i] =>
            (Shown(i) <=>
                \/ ui.selectedYears = <<>>
                \/ ArrayIncludes(ui.selectedYears, NumberToString(ui.songs[i].year)))


\* C23: one fetch of the listing sends at most four GET requests (the first
\* and three retries); the delay before the retry that follows the n-th
\* failure, n counted from 0 as retryDelay's attemptIndex, is
\* min(1000 * 2^n, 30000) ms; and a fetch whose last failure was not a 4xx
\* has settled in the error state only after the three retries.
C23_BoundedBackoff ==
    /\ client.gets <= 4
    /\ Len(client.delays) <= 3
    /\ \A k \in 1..Len(client.delays) :
          client.delays[k] = (IF 1000 * 2 ^ (k - 1) < 30000 THEN 1000 * 2 ^ (k - 1) ELSE 30000)
    /\ client.fetchStatus = "delaying" => client.gets = Len(client.delays)
    /\ (client.fetchStatus = "idle" /\ client.lastStatus >= 500) =>
          /\ client.status = "error"
          /\ client.gets = 4
          /\ Len(client.delays) = 3

\* A fetch answered 500 four times has given up after delays of 1, 2 and 4 s.
C23_Witness ==
    /\ client.status = "error" /\ client.fetchStatus = "idle"
    /\ client.lastStatus = 500
    /\ client.gets = 4
    /\ client.delays = <<1000, 2000, 4000>>


\* The k-th (from 1) of the valid data lines of request q's file, in file
\* order.
NthValidLine(q, k) ==
    LET valid == ValidLines(q)
    IN  CHOOSE i \in valid : Cardinality({j \in valid : j < i}) = k - 1

\* C24: after a successful upload into the empty table, the k-th row of the
\* table holds the names of the k-th valid line of the file, counted in file
\* order: the records keep the order of their lines, whatever lines between
\* them were dropped.
C24_FileOrderKept ==
    \A r \in Reqs :
        LET q == req[r]
        IN  Parsed(q) /\ q.file.hasBuffer /\ q.status = 201 =>
                /\ Len(store) = Cardinality(ValidLines(q))
                /\ \A k \in 1..Len(store) :
                    LET i == NthValidLine(q, k)
                        d == HeaderDelimiter(q.file.buffer)
                    IN  /\ q.rows[k].line = i
                        /\ store[k].id = k
                        /\ store[k].song_name = Normalized(Field(LineOf(q.file.buffer, i), d, 0))
                        /\ store[k].band_name = Normalized(Field(LineOf(q.file.buffer, i), d, 1))

\* The file with a dropped line between two accepted ones was stored as the
\* first line's record followed by the third's.
C24_Witness ==
    /\ req["r1"].kind = "upload" /\ req["r1"].status = 201
    /\ req["r1"].file.buffer = GappedCSV
    /\ Len(store) = 2
    /\ store[1].song_name = Chars("yesterday") /\ store[1].band_name = Chars("the beatles")
    /\ store[2].song_name = Chars("angie") /\ store[2].band_name = Chars("rolling stones")


\* The rows the table displays.
Displayed ==
    ProcessedSongs(FilteredSongs(ui.songs, ui.selectedYears),
                   ui.sortField, ui.sortDirection, ui.searchTerm)

\* Text a sorts before or with text b; the empty text sorts first.
RECURSIVE Precedes(_, _)
Precedes(a, b) ==
    \/ a = <<>>
    \/ /\ b # <<>>
       /\ \/ CodePoint(Head(a)) < CodePoint(Head(b))
          \/ Head(a) = Head(b) /\ Precedes(Tail(a), Tail(b))

\* Rows a, b are in ascending order of the field.
Ascending(a, b, field) ==
    IF field = "year" THEN a.year <= b.year ELSE Precedes(a[field], b[field])

\* A row holds the term in its song or band name, whatever the case.
Holds(song, term) ==
    \E name \in {IF "song_name" \in DOMAIN song THEN song.song_name ELSE <<>>,
                 IF "band_name" \in DOMAIN song THEN song.band_name ELSE <<>>} :
        \E i \in 0..(Len(name) - Len(term)) :
            ToLowerCase(SubSeq(name, i + 1, i + Len(term))) = ToLowerCase(term)

\* C25: the table starts sorted by band_name ascending; a click on the
\* header of the current sort field flips the direction and keeps the field,
\* a click on another header selects that field ascending, nothing else
\* changes the sort state; and the displayed rows are always the rows that
\* hold the search term, each once, in the order of the current field in the
\* current direction.
C25_SortStateMachine ==
    /\ ui.event.name = "mount" =>
          ui.sortField = "band_name" /\ ui.sortDirection = "asc"
    /\ ui.event.name = "handleSort" =>
          /\ ui.sortField = ui.event.arg
          /\ ui.sortDirection =
                (IF ui.before.sortField # ui.event.arg THEN "asc"
                 ELSE IF ui.before.sortDirection = "asc" THEN "desc" ELSE "asc")
    /\ ui.event.name \notin {"mount", "handleSort"} =>
          /\ ui.sortField = ui.before.sortField
          /\ ui.sortDirection = ui.before.sortDirection
    /\ \A i \in 1..Len(ui.songs) :
          Cardinality({k \in 1..Len(Displayed) : Displayed[k] = ui.songs[i]})
            = (IF Holds(ui.songs[i], ui.searchTerm) THEN 1 ELSE 0)
    /\ Len(Displayed) <= Len(ui.songs)
    /\ \A j, k \in 1..Len(Displayed) :
          (j < k /\ ui.sortField \in DOMAIN Displayed[j]
                 /\ ui.sortField \in DOMAIN Displayed[k]) =>
              IF ui.sortDirection = "asc"
              THEN Ascending(Displayed[j], Displayed[k], ui.sortField)
              ELSE Ascending(Displayed[k], Displayed[j], ui.sortField)

\* After clicks on the year header twice, three songs are displayed newest
\* first, which is neither the listing's order nor its reverse.
C25_Witness ==
    /\ ui.event = [name |-> "handleSort", arg |-> "year"]
    /\ ui.before.sortField = "year" /\ ui.before.sortDirection = "asc"
    /\ ui.sortField = "year" /\ ui.sortDirection = "desc"
    /\ Len(ui.songs) >= 2
    /\ ui.songs[1].band_name = Chars("rolling stones")
    /\ ui.songs[2].band_name = Chars("the beatles")
    /\ Len(Displayed) >= 2
    /\ Displayed[1].band_name = Chars("the beatles")
    /\ Displayed[2].band_name = Chars("rolling stones")


\* C26 (as stated): in the step in which an upload mutation fails, the
\* cached songs list becomes what it was when the upload started, also when
\* the cache held no data then.
C26_FailedUploadRestoresCache ==
    [][(client.mutation = "upload" /\ client.mState = "pending"
            /\ client'.mState = "error") =>
        client'.data = client.previousSongs]_vars


\* C27 (as stated): a visible error notification is hidden only by the user
\* closing it or by Notification's own duration timer, never by the timer
\* of an earlier showSuccess.
C27_ErrorStaysUntilClosed ==
    (ui.before.type = "error" /\ ui.before.isVisible /\ ~ui.notification.isVisible) =>
        ui.event.name \in {"hideNotification", "duration"}


\* C28 (as stated): whenever the year dropdown is closed, the pending
\* selection equals the applied one.
C28_PendingEqualsApplied ==
    (ui.mounted /\ ~ui.isOpen) => ui.tempSelectedYears = ui.selectedYears


\* C29 (as stated): an upload of a file the frontend accepted, its name
\* ending in .csv and its type text/csv or application/vnd.ms-excel, is not
\* answered 400 "File must be a CSV".
C29_AcceptedFilePassesTypeCheck ==
    LET q == req["r2"]
        suffix == SubSeq(DroppedFileName, Len(DroppedFileName) - 3, Len(DroppedFileName))
    IN  (/\ client.mutation = "upload" /\ q.kind = "upload" /\ q.pc = "done"
         /\ suffix = <<".", "c", "s", "v">>
         /\ q.file.mimetype \in {Chars("text/csv"), Chars("application/vnd.ms-excel")})
        => ~(q.status = 400 /\ q.message = <<"File must be a CSV">>)


\* The text of the year field of a parsed row of request q.
YearField(q, row) ==
    Normalized(Field(SourceLine(q, row), HeaderDelimiter(q.file.buffer), 2))

\* C30: every record handed to the store, and every stored row, has an
\* integer year other than 0; a row of an upload whose year field reads as
\* the integer 0, or as no number at all, carries the calendar year of the
\* time of its parse, and so do the rows of the import of the sample whose
\* year field is 0.
C30_YearNeverZero ==
    /\ \A k \in 1..Len(store) : store[k].year \in Int /\ store[k].year # 0
    /\ \A r \in Reqs :
        LET q == req[r]
        IN  /\ \A k \in 1..Len(q.rows) :
                /\ q.rows[k].song.year \in Int
                /\ q.rows[k].song.year # 0
            /\ Parsed(q) =>
                \A k \in 1..Len(q.rows) :
                    LET field == YearField(q, q.rows[k])
                    IN  (\/ NotNumeric(field)
                         \/ IsInteger(field) /\ IntegerValue(field) = 0)
                        => q.rows[k].song.year \in FirstYear..currentYear
            /\ (q.kind = "import"
                    /\ q.file.buffer = Chars("Song Name;Band;Year\nImagine;John Lennon;0\n")) =>
                /\ q.failure = "none" => Len(q.rows) = 1
                /\ \A k \in 1..Len(q.rows) :
                        q.rows[k].song.year \in FirstYear..currentYear

\* The uploaded row whose year field is 0 is stored with the calendar year.
C30_Witness ==
    /\ req["r1"].kind = "upload" /\ req["r1"].status = 201
    /\ \E k \in 1..Len(req["r1"].rows) :
        /\ YearField(req["r1"], req["r1"].rows[k]) = <<"0">>
        /\ store[k].year = req["r1"].rows[k].song.year
        /\ store[k].year \in FirstYear..currentYear

====
